---- MODULE Spec2Model ----
(***************************************************************************)
(* Model of SunThemeSwitcher.py: the SunriseSunset solver object, its      *)
(* isNight classifier, and the SunThemeSwitcher periodic check.            *)
(*                                                                         *)
(* Units.  Angles are integers in milliradians (pi = 3142).  Times of day  *)
(* are integers in seconds (the float "decimal hours" of the source times  *)
(* 3600), a datetime is a record [day, hour, minute, second, aware, off]   *)
(* with off the UTC offset of its tzinfo in minutes; the microsecond       *)
(* field is below the resolution of the model.                             *)
(***************************************************************************)
EXTENDS Integers, Sequences, FiniteSets, TLC

VARIABLES
    \* ---- SunriseSunset object and the locals of its solver ----
    pc,            \* position in SunriseSunset.__init__ / the solver
    args,          \* the arguments of the constructor call
    dateLocal,     \* self.__dateLocal (the `date` argument)
    lat,           \* self.__lat   (degrees)
    lon,           \* self.__lon   (milliradians, i.e. radians(lon))
    zenith,        \* self.__zenith
    offsetUTC,     \* self.__offsetUTC (seconds)
    sunrise,       \* self.__sunrise  (None or Some(datetime))
    sunset,        \* self.__sunset
    rs,            \* 1 = sunrise run, -1 = sunset run
    ct,            \* loop counter of __determineRiseOrSet
    utold,         \* milliradians
    utnew,         \* milliradians
    decimalTime,   \* decimalTime of lines 147 and 174-180 (seconds)
    err,           \* exception raised by the constructor, "none" if none
    \* ---- isNight call ----
    collar,        \* the collar argument of the last isNight call (minutes)
    night,         \* its result
    \* ---- SunThemeSwitcher and its host ----
    settings,      \* SunThemeSwitcher.sublime-settings
    prefs,         \* Preferences.sublime-settings
    clock,         \* the wall clock, datetime.datetime.now()
    sunrise_time,  \* self.sunrise_time
    sunset_time,   \* self.sunset_time
    dark,          \* result of the last isItDark call
    pending,       \* one-shot callbacks registered with sublime.set_timeout
    runSunThemeSwitcher,  \* the module-level guard flag
    started,       \* number of switchers whose run() was called by the module
    self,          \* the switcher the last periodic check ran on (0: none)
    \* ---- history of the last operation ----
    lastOp,        \* name of the last operation
    runs,          \* periodic checks made (cyclic counter)
    call,          \* arguments and effect of the last ChangeSchemeCall step
    prevCall,      \* Some(the same for the step before it), None if there is none
    eventsFor      \* the day and settings sunrise_time/sunset_time were computed for

solverVars == <<pc, args, dateLocal, lat, lon, zenith, offsetUTC, sunrise, sunset,
                rs, ct, utold, utnew, decimalTime, err>>
nightVars == <<collar, night>>
switcherVars == <<settings, prefs, clock, sunrise_time, sunset_time, dark,
                  pending, runSunThemeSwitcher, started, self, runs, call,
                  prevCall, eventsFor>>
vars == <<solverVars, nightVars, switcherVars, lastOp>>

None == <<>>
Some(x) == <<x>>
Abs(x) == IF x < 0 THEN -x ELSE x

(***************************************************************************)
(* datetime                                                                *)
(***************************************************************************)
DateTime(d, h, m, s, aware, off) ==
    [day |-> d, hour |-> h, minute |-> m, second |-> s, aware |-> aware, off |-> off]

\* seconds since day 0, the order datetimes of one tzinfo are compared in
Stamp(dt) == ((dt.day * 24 + dt.hour) * 60 + dt.minute) * 60 + dt.second

\* date.utctimetuple(): the fields of the instant in UTC (hour, minute)
UtcHour(dt) == (((dt.hour * 60 + dt.minute) - dt.off) % 1440) \div 60
UtcMinute(dt) == (((dt.hour * 60 + dt.minute) - dt.off) % 1440) % 60

\* the hour and minute fields as minutes of the day
HM(t) == t.hour * 60 + t.minute

\* datetime.replace(hour=, minute=, second=): ValueError when a field is out of range
ReplaceOk(h, m, s) == h \in 0..23 /\ m \in 0..59 /\ s \in 0..59
Replace(dt, h, m, s) == [dt EXCEPT !.hour = h, !.minute = m, !.second = s]

(***************************************************************************)
(* Idle values of the three groups of variables                            *)
(***************************************************************************)
NoDate == DateTime(0, 0, 0, 0, FALSE, 0)

NoArgs == [date |-> NoDate, lat |-> 0, lon |-> 0, zenith |-> ""]

SolverIdle ==
    /\ pc = "idle" /\ args = NoArgs /\ dateLocal = NoDate /\ lat = 0 /\ lon = 0
    /\ zenith = "official" /\ offsetUTC = 0 /\ sunrise = None /\ sunset = None
    /\ rs = 1 /\ ct = 0 /\ utold = 0 /\ utnew = 0 /\ decimalTime = 0
    /\ err = "none"

NightIdle == collar = 0 /\ night = FALSE

NoCall == [desiredScheme |-> "", desiredTheme |-> "",
           before |-> [color_scheme |-> "", theme |-> ""],
           wroteScheme |-> FALSE, wroteTheme |-> FALSE]

(***************************************************************************)
(* SunriseSunset.isNight                                                   *)
(***************************************************************************)
isNight_StrictnessLost(sr, ss, now, c) ==
    LET delta == c * 60
    IN  (Stamp(sr) - delta) >= Stamp(now) \/ Stamp(now) >= (Stamp(ss) + delta)

isNight_CollarInverted(sr, ss, now, c) ==
    LET delta == c * 60
    IN  (Stamp(sr) + delta) > Stamp(now) \/ Stamp(now) > (Stamp(ss) - delta)

\* sr, ss, now: self.__sunrise, self.__sunset, self.__dateLocal; c: collar (minutes)
isNight(sr, ss, now, c) ==
    LET delta == c * 60          \* datetime.timedelta(minutes=collar), in seconds
    IN  (Stamp(sr) - delta) > Stamp(now) \/ Stamp(now) > (Stamp(ss) + delta)

(***************************************************************************)
(* SunThemeSwitcher.isItDark                                               *)
(***************************************************************************)
\* lines 261-274: the comparison of the hour and minute fields
hourMinuteRule(sr, ss, now) ==
    IF sr.hour < now.hour /\ now.hour < ss.hour THEN FALSE
    ELSE IF sr.hour = now.hour
         THEN (IF sr.minute < now.minute THEN FALSE ELSE TRUE)
    ELSE IF now.hour = ss.hour
         THEN (IF now.minute < ss.minute THEN FALSE ELSE TRUE)
    ELSE TRUE

isItDark_ForceDayFirst(st, sr, ss, now) ==
    IF st.forceDay THEN FALSE
    ELSE IF st.forceNight THEN TRUE
    ELSE hourMinuteRule(sr, ss, now)

\* st: the settings; sr, ss: self.sunrise_time, self.sunset_time; now: datetime.now()
isItDark(st, sr, ss, now) ==
    IF st.forceNight THEN TRUE
    ELSE IF st.forceDay THEN FALSE
    ELSE hourMinuteRule(sr, ss, now)

(***************************************************************************)
(* SunriseSunset: constructor and solver                                   *)
(***************************************************************************)
Pi == 3142                \* math.pi, milliradians
TwoPi == 2 * Pi
MaxIter == 35             \* "ct < 35"
Epsilon == 1              \* "> 0.001", milliradians
DaySeconds == 24 * 3600   \* 24.0 decimal hours

\* __ZENITH: the keys, and each altitude in millidegrees
ZENITH == [official |-> -833, civil |-> -6000, nautical |-> -12000,
           amateur |-> -15000, astronomical |-> -18000]

InputError_LatitudeOffByOne(date, la, z) ==
    IF ~date.aware THEN "ValueError: date must be a datetime with timezone info"
    ELSE IF z \notin DOMAIN ZENITH THEN "ValueError: invalid zenith name"
    ELSE IF Abs(la) >= 63 THEN "ValueError: invalid latitude"
    ELSE "none"

\* the three checks of __init__ (lines 32-41); "none" when all pass
InputError(date, la, z) ==
    IF ~date.aware THEN "ValueError: date must be a datetime with timezone info"
    ELSE IF z \notin DOMAIN ZENITH THEN "ValueError: invalid zenith name"
    ELSE IF Abs(la) > 63 THEN "ValueError: invalid latitude"
    ELSE "none"

\* lines 47-50, in seconds
OffsetUTC(date) ==
    ((date.hour - UtcHour(date)) * 60 + (date.minute - UtcMinute(date))) * 60

\* int(): truncation towards zero (b > 0)
TruncDiv(a, b) == IF a >= 0 THEN a \div b ELSE -((-a) \div b)

\* __getRange: value - 2pi * int(value / 2pi), plus 2pi when negative
getRange(value) ==
    LET tmp2 == value - TwoPi * TruncDiv(value, TwoPi)
    IN  IF tmp2 < 0 THEN tmp2 + TwoPi ELSE tmp2

\* atan2(sqrt(1 - c*c), c) for c in [-1, 1] (c times 1000), i.e. arccos, taken
\* linear between its values at -1, 0 and 1
ArcCos(c) == (Pi \div 2) - TruncDiv(c * (Pi \div 2), 1000)

\* lines 137-142
Correction(cosc) ==
    IF cosc > 1000 THEN 0
    ELSE IF cosc < -1000 THEN Pi
    ELSE ArcCos(cosc)

\* the loop condition of line 120
LoopCond_OneMore(uo, un, c) == Abs(uo - un) > Epsilon /\ c <= MaxIter

LoopCond(uo, un, c) == Abs(uo - un) > Epsilon /\ c < MaxIter

\* degrees(utnew) / 15, decimal hours, here in seconds
DecimalTime(ut) == (ut * 12 * 3600) \div Pi

\* lines 174-180
Wrap24(d) ==
    IF d < 0 THEN d + DaySeconds
    ELSE IF d > DaySeconds THEN d - DaySeconds
    ELSE d

\* lines 183-187
HourOf(d) == d \div 3600
MinuteOf(d) == (d - HourOf(d) * 3600) \div 60
SecondOf(d) == (d - HourOf(d) * 3600) - MinuteOf(d) * 60

(* Arguments of the constructor.  AwareDates are instants whose local and   *)
(* UTC fields differ by the zone offset (noon at +02:00), by the offset     *)
(* minus 24 h (01:00 at +02:00), by the offset plus 24 h (21:00 at -05:00), *)
(* by a half-hour offset (10:15 at +05:30), and noon at +06:00.             *)
NaiveDate == DateTime(0, 12, 0, 0, FALSE, 0)
AwareDates == { DateTime(0, 12, 0, 0, TRUE, 120), DateTime(0, 1, 0, 0, TRUE, 120),
                DateTime(0, 21, 0, 0, TRUE, -300), DateTime(0, 10, 15, 0, TRUE, 330),
                DateTime(0, 12, 0, 0, TRUE, 360) }
ZenithArgs == DOMAIN ZENITH \cup {"sunny"}
LatArgs == {-64, -63, 63, 64}
LonArgs == {-1292, 0}        \* radians(-74), radians(0), milliradians

CtorArgs ==
    { [date |-> d, lat |-> la, lon |-> 0, zenith |-> z] :
        d \in {NaiveDate, DateTime(0, 12, 0, 0, TRUE, 120)}, la \in LatArgs, z \in ZenithArgs }
    \cup
    { [date |-> d, lat |-> 41, lon |-> lo, zenith |-> "official"] :
        d \in AwareDates, lo \in LonArgs }

(* One round of the loop draws the equation of time e (milliradians) and    *)
(* cosc (times 1000) that the orbital formulas of lines 123-135 produce.    *)
OrbitSamples == { <<0, 0>>, <<1, 0>>, <<3, 0>>, <<0, 1200>>, <<0, -1200>> }

\* lines 23-53, up to the first solver run
Construct ==
    /\ pc = "idle"
    /\ \E a \in CtorArgs :
         /\ args' = a
         /\ err' = InputError(a.date, a.lat, a.zenith)
         /\ IF InputError(a.date, a.lat, a.zenith) # "none"
            THEN /\ pc' = "failed"
                 /\ UNCHANGED <<dateLocal, lat, lon, zenith, offsetUTC>>
            ELSE /\ pc' = "loop"
                 /\ dateLocal' = a.date /\ lat' = a.lat /\ lon' = a.lon
                 /\ zenith' = a.zenith
                 /\ offsetUTC' = OffsetUTC(a.date)
    /\ rs' = 1 /\ ct' = 0 /\ utold' = Pi /\ utnew' = 0
    /\ lastOp' = "Construct"
    /\ UNCHANGED <<sunrise, sunset, decimalTime, nightVars, switcherVars>>

\* lines 120-145: one round of the loop
Iterate ==
    /\ pc = "loop"
    /\ LoopCond(utold, utnew, ct)
    /\ ct' = ct + 1
    /\ utold' = utnew
    /\ \E o \in OrbitSamples :
         LET e == o[1]
             gha == utnew - Pi + e
             correction == Correction(o[2])
         IN  utnew' = getRange(utnew - (gha + lon + rs * correction))
    /\ lastOp' = "Iterate"
    /\ UNCHANGED <<pc, args, dateLocal, lat, lon, zenith, offsetUTC, sunrise, sunset,
                   rs, decimalTime, err, nightVars, switcherVars>>

\* lines 120, 147: the loop ends
ExitLoop ==
    /\ pc = "loop"
    /\ ~LoopCond(utold, utnew, ct)
    /\ decimalTime' = DecimalTime(utnew)
    /\ pc' = "convert"
    /\ lastOp' = "ExitLoop"
    /\ UNCHANGED <<args, dateLocal, lat, lon, zenith, offsetUTC, sunrise, sunset,
                   rs, ct, utold, utnew, err, nightVars, switcherVars>>

\* __get24HourLocalTime (lines 164-191), then line 98 or the end of __init__
Convert ==
    /\ pc = "convert"
    /\ LET d == Wrap24(decimalTime + offsetUTC)
           ok == ReplaceOk(HourOf(d), MinuteOf(d), SecondOf(d))
           localDT == Replace(dateLocal, HourOf(d), MinuteOf(d), SecondOf(d))
       IN  /\ decimalTime' = d
           /\ IF ~ok
              THEN /\ err' = "ValueError: hour must be in 0..23"
                   /\ pc' = "failed"
                   /\ UNCHANGED <<sunrise, sunset, rs, ct, utold, utnew>>
              ELSE IF rs = 1
              THEN /\ sunrise' = Some(localDT)
                   /\ rs' = -1 /\ ct' = 0 /\ utold' = Pi /\ utnew' = 0
                   /\ pc' = "loop"
                   /\ UNCHANGED <<sunset, err>>
              ELSE /\ sunset' = Some(localDT)
                   /\ pc' = "done"
                   /\ UNCHANGED <<sunrise, err, rs, ct, utold, utnew>>
    /\ lastOp' = "Convert"
    /\ UNCHANGED <<args, dateLocal, lat, lon, zenith, offsetUTC, nightVars, switcherVars>>

(***************************************************************************)
(* SunThemeSwitcher: settings, preferences, switcher objects               *)
(***************************************************************************)
MaxLoads == 1      \* executions of the module body
MaxDay == 1        \* calendar days the clock runs through: 0..MaxDay
MaxMinute == 2     \* minute fields drawn for the classifier: 0..MaxMinute

Switchers == 1..MaxLoads

Time(h, m) == DateTime(0, h, m, 0, FALSE, 0)

\* SunThemeSwitcher.sublime-settings as the user has it at the start; the
\* timezone is a numeric offset (float(timezone) of line 220 succeeds)
DefaultSettings ==
    [checkCycle |-> 2, timezone |-> 120, overrideTimes |-> FALSE,
     overrideSunriseTime |-> Time(7, 0), overrideSunsetTime |-> Time(17, 0),
     latitude |-> 41, longitude |-> -74, forceNight |-> FALSE, forceDay |-> FALSE,
     nightColourScheme |-> "Night.tmTheme", nightWindowTheme |-> "",
     dayColourScheme |-> "Day.tmTheme", dayWindowTheme |-> "Day.sublime-theme"]

\* Preferences.sublime-settings at the start
DefaultPrefs == [color_scheme |-> "Other.tmTheme", theme |-> "Other.sublime-theme"]

NoEvents == [day |-> -1, overrideTimes |-> FALSE, latitude |-> 0]

\* no switcher constructed yet
NoSwitcher ==
    /\ prefs = DefaultPrefs
    /\ clock = Time(0, 0)
    /\ sunrise_time = [i \in Switchers |-> NoDate]
    /\ sunset_time = [i \in Switchers |-> NoDate]
    /\ dark = FALSE
    /\ pending = [i \in Switchers |-> 0]
    /\ runSunThemeSwitcher = FALSE /\ started = 0 /\ self = 0 /\ runs = 0
    /\ call = NoCall /\ prevCall = None
    /\ eventsFor = [i \in Switchers |-> NoEvents]

SwitcherIdle == settings = DefaultSettings /\ NoSwitcher

(***************************************************************************)
(* Specification of isNight: objects as the constructor leaves them, and   *)
(* calls of isNight on them                                                *)
(***************************************************************************)
QuarterHours(h1, h2) == { DateTime(0, h, m, 0, TRUE, 120) : h \in h1..h2, m \in {0, 15, 30, 45} }
CollarArgs == {0, 15, 30}

InitNight ==
    /\ pc = "done" /\ err = "none"
    /\ dateLocal \in QuarterHours(4, 7) \cup QuarterHours(17, 19) \cup QuarterHours(12, 12)
    /\ args = [date |-> dateLocal, lat |-> 41, lon |-> 0, zenith |-> "official"]
    /\ sunrise \in { Some(t) : t \in QuarterHours(5, 6) }
    /\ sunset \in { Some(t) : t \in QuarterHours(18, 18) }
    /\ lat = 41 /\ lon = 0 /\ zenith = "official"
    /\ offsetUTC = OffsetUTC(dateLocal)
    /\ rs = -1 /\ ct = 0 /\ utold = 0 /\ utnew = 0 /\ decimalTime = 0
    /\ NightIdle /\ SwitcherIdle /\ lastOp = "init"

IsNightCall ==
    /\ pc = "done"
    /\ \E c \in CollarArgs :
         /\ collar' = c
         /\ night' = isNight(sunrise[1], sunset[1], dateLocal, c)
    /\ lastOp' = "isNight"
    /\ UNCHANGED <<solverVars, switcherVars>>

NextNight == IsNightCall
SpecNight == InitNight /\ [][NextNight]_vars

(***************************************************************************)
(* Specification of isItDark: a switcher with any settings, times and      *)
(* clock, and calls of isItDark on it                                      *)
(***************************************************************************)
DarkHours == {6, 12, 18}
DarkTimes == { Time(h, m) : h \in DarkHours, m \in 0..MaxMinute }

InitDark ==
    /\ SolverIdle /\ NightIdle
    /\ settings \in { [DefaultSettings EXCEPT !.forceNight = fn, !.forceDay = fd] :
                        fn \in BOOLEAN, fd \in BOOLEAN }
    /\ prefs = DefaultPrefs
    /\ clock \in DarkTimes
    /\ \E sr \in DarkTimes : sunrise_time = [i \in Switchers |-> IF i = 1 THEN sr ELSE NoDate]
    /\ \E ss \in DarkTimes : sunset_time = [i \in Switchers |-> IF i = 1 THEN ss ELSE NoDate]
    /\ dark = FALSE
    /\ pending = [i \in Switchers |-> IF i = 1 THEN 1 ELSE 0]
    /\ runSunThemeSwitcher = TRUE /\ started = 1 /\ self = 0 /\ runs = 0
    /\ call = NoCall /\ prevCall = None
    /\ eventsFor = [i \in Switchers |-> NoEvents]
    /\ lastOp = "init"

IsItDarkCall ==
    /\ dark' = isItDark(settings, sunrise_time[1], sunset_time[1], clock)
    /\ lastOp' = "isItDark"
    /\ UNCHANGED <<settings, prefs, clock, sunrise_time, sunset_time, pending,
                   runSunThemeSwitcher, started, self, runs, call, prevCall,
                   eventsFor, solverVars, nightVars>>

NextDark == IsItDarkCall
SpecDark == InitDark /\ [][NextDark]_vars

(***************************************************************************)
(* Specification of the solver: one construction of a SunriseSunset        *)
(***************************************************************************)
InitSolver == SolverIdle /\ NightIdle /\ SwitcherIdle /\ lastOp = "init"

NextSolver == Construct \/ Iterate \/ ExitLoop \/ Convert
SpecSolver == InitSolver /\ [][NextSolver]_vars

\* the constructor is straight-line code: each of its steps is taken
SpecSolverFair ==
    SpecSolver /\ WF_vars(Iterate) /\ WF_vars(ExitLoop) /\ WF_vars(Convert)

(***************************************************************************)
(* SunThemeSwitcher.changeScheme                                           *)
(***************************************************************************)
changeScheme_NoCompare(p, desiredScheme, desiredTheme) ==
    LET wroteScheme == desiredScheme # ""
        p1 == IF wroteScheme THEN [p EXCEPT !.color_scheme = desiredScheme] ELSE p
        wroteTheme == desiredTheme # ""
        p2 == IF wroteTheme THEN [p1 EXCEPT !.theme = desiredTheme] ELSE p1
    IN  [prefs |-> p2, wroteScheme |-> wroteScheme, wroteTheme |-> wroteTheme]

\* p: Preferences.sublime-settings.  The result: the preferences after the
\* call, and whether sublimeSettings.set was called for each key.
changeScheme(p, desiredScheme, desiredTheme) ==
    LET wroteScheme == desiredScheme # "" /\ p.color_scheme # desiredScheme
        p1 == IF wroteScheme THEN [p EXCEPT !.color_scheme = desiredScheme] ELSE p
        wroteTheme == desiredTheme # "" /\ p1.theme # desiredTheme
        p2 == IF wroteTheme THEN [p1 EXCEPT !.theme = desiredTheme] ELSE p1
    IN  [prefs |-> p2, wroteScheme |-> wroteScheme, wroteTheme |-> wroteTheme]

SchemeArgs == {"", "Day.tmTheme", "Night.tmTheme"}
ThemeArgs == {"", "Day.sublime-theme", "Night.sublime-theme"}

ChangeSchemeCall ==
    /\ \E ds \in SchemeArgs, dt \in ThemeArgs :
         LET r == changeScheme(prefs, ds, dt)
         IN  /\ prefs' = r.prefs
             /\ call' = [desiredScheme |-> ds, desiredTheme |-> dt, before |-> prefs,
                         wroteScheme |-> r.wroteScheme, wroteTheme |-> r.wroteTheme]
    /\ prevCall' = IF lastOp = "changeScheme" THEN Some(call) ELSE None
    /\ lastOp' = "changeScheme"
    /\ UNCHANGED <<settings, clock, sunrise_time, sunset_time, dark, pending,
                   runSunThemeSwitcher, started, self, runs, eventsFor,
                   solverVars, nightVars>>

\* the user picks a colour scheme or theme in the editor
UserEditsPrefs ==
    /\ \E k \in {"color_scheme", "theme"} :
         /\ prefs[k] # DefaultPrefs[k]
         /\ prefs' = [prefs EXCEPT ![k] = DefaultPrefs[k]]
    /\ lastOp' = "editPrefs"
    /\ UNCHANGED <<settings, clock, sunrise_time, sunset_time, dark, pending,
                   runSunThemeSwitcher, started, self, runs, call, prevCall,
                   eventsFor, solverVars, nightVars>>

InitChange == SolverIdle /\ NightIdle /\ SwitcherIdle /\ lastOp = "init"
NextChange == ChangeSchemeCall \/ UserEditsPrefs
SpecChange == InitChange /\ [][NextChange]_vars

(***************************************************************************)
(* The plugin: module start-up, the periodic check, the clock, the user    *)
(***************************************************************************)
RunsCycle == 2      \* the periodic checks are counted modulo RunsCycle

LatitudeSettings == {41, 52, 64}
ClockTimes == {Time(12, 0), Time(23, 0)}

\* sunrise and sunset as SunriseSunset(...).getSunRiseSet() may return them
SolverEvents == { <<Time(6, 0), Time(18, 0)>>, <<Time(6, 2), Time(18, 1)>> }

\* the instant datetime.now(self.tz_info) of line 232
NowAware(st) == [clock EXCEPT !.aware = TRUE, !.off = st.timezone * 60]

\* setCorrectScheme (lines 276-284) of a switcher whose times are sr and ss:
\* isItDark's answer and the preferences after changeScheme
setCorrectScheme(sr, ss) ==
    LET d == isItDark(settings, sr, ss, clock)
        correctScheme == IF d THEN settings.nightColourScheme ELSE settings.dayColourScheme
        correctTheme == IF d THEN settings.nightWindowTheme ELSE settings.dayWindowTheme
    IN  [dark |-> d, prefs |-> changeScheme(prefs, correctScheme, correctTheme).prefs]

run_RegistersAfterCheck(i, timer, sr, ss, ok) ==
    /\ pending' = IF ok THEN [timer EXCEPT ![i] = @ + 1] ELSE timer
    /\ IF ok
       THEN dark' = setCorrectScheme(sr, ss).dark /\ prefs' = setCorrectScheme(sr, ss).prefs
       ELSE UNCHANGED <<dark, prefs>>
    /\ self' = i
    /\ runs' = (runs + 1) % RunsCycle
    /\ lastOp' = IF ok THEN "run" ELSE "run_failed"

\* run() (lines 286-288) of switcher i; timer: the callbacks registered when
\* it is entered.  set_timeout first, the scheme check after it; ok: the
\* check raises nothing
run(i, timer, sr, ss, ok) ==
    /\ pending' = [timer EXCEPT ![i] = @ + 1]
    /\ IF ok
       THEN dark' = setCorrectScheme(sr, ss).dark /\ prefs' = setCorrectScheme(sr, ss).prefs
       ELSE UNCHANGED <<dark, prefs>>
    /\ self' = i
    /\ runs' = (runs + 1) % RunsCycle
    /\ lastOp' = IF ok THEN "run" ELSE "run_failed"

\* the module body (lines 291-304) with a switcher that is constructed;
\* ev: the sunrise and sunset the constructor stores, ok: the first scheme check
StartSwitcher(i, ev, ok) ==
    /\ sunrise_time' = [sunrise_time EXCEPT ![i] = ev[1]]
    /\ sunset_time' = [sunset_time EXCEPT ![i] = ev[2]]
    /\ eventsFor' = [eventsFor EXCEPT ![i] =
                        [day |-> clock.day, overrideTimes |-> settings.overrideTimes,
                         latitude |-> settings.latitude]]
    /\ run(i, pending, ev[1], ev[2], ok)
    /\ runSunThemeSwitcher' = ok
    /\ started' = i

\* the host executes the module: the guard, the constructor (lines 215-236),
\* the first run()
ModuleLoad ==
    /\ ~runSunThemeSwitcher
    /\ started < MaxLoads
    /\ \/ /\ settings.overrideTimes
          /\ \E ok \in BOOLEAN :
               StartSwitcher(started + 1,
                             <<settings.overrideSunriseTime, settings.overrideSunsetTime>>, ok)
       \/ /\ ~settings.overrideTimes
          /\ InputError(NowAware(settings), settings.latitude, "official") = "none"
          /\ \E ev \in SolverEvents, ok \in BOOLEAN : StartSwitcher(started + 1, ev, ok)
       \/ \* SunriseSunset(...) raises ValueError (an input check, or the
          \* replace of line 189): it leaves the module body, no switcher, no flag
          /\ ~settings.overrideTimes
          /\ lastOp' = "load_failed"
          /\ UNCHANGED <<prefs, sunrise_time, sunset_time, dark, pending,
                         runSunThemeSwitcher, started, self, runs, eventsFor>>
    /\ UNCHANGED <<settings, clock, call, prevCall, solverVars, nightVars>>

\* the timer fires a callback of switcher i: it is one-shot and leaves the timer
Run(i) ==
    /\ pending[i] > 0
    /\ \E ok \in BOOLEAN :
         run(i, [pending EXCEPT ![i] = @ - 1], sunrise_time[i], sunset_time[i], ok)
    /\ UNCHANGED <<settings, clock, sunrise_time, sunset_time, runSunThemeSwitcher,
                   started, call, prevCall, eventsFor, solverVars, nightVars>>

\* time passes: the clock moves to the next sampled time of day, or to the
\* first one of the next day
Tick ==
    /\ \E t \in ClockTimes :
         \/ /\ HM(t) > HM(clock)
            /\ \A u \in ClockTimes : HM(u) > HM(clock) => HM(t) <= HM(u)
            /\ clock' = [t EXCEPT !.day = clock.day]
         \/ /\ \A u \in ClockTimes : HM(u) <= HM(clock) /\ HM(t) <= HM(u)
            /\ clock.day < MaxDay
            /\ clock' = [t EXCEPT !.day = clock.day + 1]
    /\ lastOp' = "tick"
    /\ UNCHANGED <<settings, prefs, sunrise_time, sunset_time, dark, pending,
                   runSunThemeSwitcher, started, self, runs, call, prevCall,
                   eventsFor, solverVars, nightVars>>

\* the user edits SunThemeSwitcher.sublime-settings
UserEditsSettings ==
    /\ \/ \E k \in {"forceNight", "forceDay", "overrideTimes"} :
            settings' = [settings EXCEPT ![k] = ~settings[k]]
       \/ \E la \in LatitudeSettings \ {settings.latitude} :
            settings' = [settings EXCEPT !.latitude = la]
    /\ lastOp' = "editSettings"
    /\ UNCHANGED <<prefs, clock, sunrise_time, sunset_time, dark, pending,
                   runSunThemeSwitcher, started, self, runs, call, prevCall,
                   eventsFor, solverVars, nightVars>>

Init == SolverIdle /\ NightIdle /\ SwitcherIdle /\ lastOp = "init"

Next ==
    \/ ModuleLoad
    \/ \E i \in Switchers : Run(i)
    \/ Tick
    \/ UserEditsSettings

Spec == Init /\ [][Next]_vars

(* The timer chain, with the settings as the user left them before the     *)
(* plugin is loaded.  The host's timer fires every callback registered     *)
(* with set_timeout.                                                       *)
InitChain ==
    /\ SolverIdle /\ NightIdle /\ NoSwitcher /\ lastOp = "init"
    /\ settings \in { [DefaultSettings EXCEPT !.forceNight = fn, !.overrideTimes = ot,
                                              !.latitude = la] :
                        fn \in BOOLEAN, ot \in BOOLEAN, la \in {41, 64} }

NextChain ==
    \/ ModuleLoad
    \/ \E i \in Switchers : Run(i)
    \/ Tick

SpecChain == InitChain /\ [][NextChain]_vars /\ \A i \in Switchers : WF_vars(Run(i))

(***************************************************************************)
(* Claims about isItDark (SpecDark)                                        *)
(***************************************************************************)
\* C1: the force switches have absolute priority in isItDark: with forceNight
\* set it answers night whatever sunrise, sunset and the clock are, also when
\* forceDay is set too; with forceDay set and forceNight not, it answers day.
C1_ForcePriority ==
    lastOp = "isItDark" =>
        /\ (settings.forceNight => dark)
        /\ (settings.forceDay /\ ~settings.forceNight => ~dark)

\* both switches set, the clock strictly between sunrise and sunset: night
C1_Witness ==
    /\ lastOp = "isItDark" /\ settings.forceNight /\ settings.forceDay
    /\ HM(sunrise_time[1]) < HM(clock) /\ HM(clock) < HM(sunset_time[1])
    /\ dark

\* C4: with no force switch set and sunrise < sunset, isItDark answers night
\* exactly when the clock's hour:minute is before sunrise or after sunset, so
\* day at the sunrise minute and day at the sunset minute.
C4_EqualsIsNightRule ==
    ( /\ lastOp = "isItDark"
      /\ ~settings.forceNight /\ ~settings.forceDay
      /\ HM(sunrise_time[1]) < HM(sunset_time[1]) )
    => (dark <=> (HM(clock) < HM(sunrise_time[1]) \/ HM(clock) > HM(sunset_time[1])))

(***************************************************************************)
(* Claims about isNight (SpecNight)                                        *)
(***************************************************************************)
\* a is an earlier instant than b, field by field
Earlier(a, b) ==
    \/ a.day < b.day
    \/ a.day = b.day /\ a.hour < b.hour
    \/ a.day = b.day /\ a.hour = b.hour /\ a.minute < b.minute
    \/ a.day = b.day /\ a.hour = b.hour /\ a.minute = b.minute /\ a.second < b.second

\* the instant m minutes after t (m may be negative), within the sampled hours
Shift(t, m) ==
    LET total == t.hour * 60 + t.minute + m
    IN  [t EXCEPT !.hour = total \div 60, !.minute = total % 60]

\* C2: isNight(collar) is true exactly when now < sunrise - collar or
\* now > sunset + collar, compared as full timestamps; with collar 0 it is
\* false at the sunrise instant and false at the sunset instant.
C2_IsNightRule ==
    lastOp = "isNight" =>
        /\ night <=> ( \/ Earlier(dateLocal, Shift(sunrise[1], -collar))
                       \/ Earlier(Shift(sunset[1], collar), dateLocal) )
        /\ (collar = 0 /\ dateLocal = sunrise[1] => ~night)
        /\ (collar = 0 /\ dateLocal = sunset[1] => ~night)

C2_Witness ==
    lastOp = "isNight" /\ collar = 0 /\ dateLocal = sunrise[1] /\ ~night

At(h, m) == DateTime(0, h, m, 0, TRUE, 120)
SixToSix == sunrise = Some(At(6, 0)) /\ sunset = Some(At(18, 0))

\* C3 as stated: sunrise 06:00, sunset 18:00, collar 30: night at 05:45 and
\* day at 06:15.
C3_Original ==
    (lastOp = "isNight" /\ SixToSix /\ collar = 30) =>
        /\ (dateLocal = At(5, 45) => night)
        /\ (dateLocal = At(6, 15) => ~night)

\* C3 (amended): sunrise 06:00, sunset 18:00, collar 30: day at 05:45 and day
\* at 06:15, night at 05:15; a positive collar shortens the night by the collar
\* length before sunrise: from sunrise - collar up to sunrise it is day.
C3_CollarExtendsDay ==
    /\ (lastOp = "isNight" /\ SixToSix /\ collar = 30) =>
          /\ (dateLocal = At(5, 45) => ~night)
          /\ (dateLocal = At(6, 15) => ~night)
          /\ (dateLocal = At(5, 15) => night)
    /\ ( /\ lastOp = "isNight"
         /\ ~Earlier(dateLocal, Shift(sunrise[1], -collar))
         /\ Earlier(dateLocal, sunrise[1])
         /\ ~Earlier(Shift(sunset[1], collar), dateLocal) ) => ~night

C3_Witness ==
    lastOp = "isNight" /\ SixToSix /\ collar = 30 /\ dateLocal = At(5, 45) /\ ~night

(***************************************************************************)
(* Claims about the constructor and the solver (SpecSolver)                *)
(***************************************************************************)
InputErrors == { "ValueError: date must be a datetime with timezone info",
                 "ValueError: invalid zenith name",
                 "ValueError: invalid latitude" }

\* C5: the constructor fails with an input error exactly when the instant has
\* no UTC offset, or the zenith name is not one of the five, or |latitude| > 63
\* (64 and -64 fail, 63 and -63 do not); on such a failure neither sunrise nor
\* sunset is produced.
C5_InputErrorExactly ==
    pc # "idle" =>
        LET bad == \/ ~args.date.aware
                   \/ args.zenith \notin {"official", "civil", "nautical",
                                          "amateur", "astronomical"}
                   \/ args.lat > 63 \/ args.lat < -63
        IN  /\ (err \in InputErrors) <=> bad
            /\ bad => pc = "failed" /\ sunrise = None /\ sunset = None

\* an aware instant and a valid zenith name with latitude 64: rejected
C5_Witness ==
    /\ pc = "failed" /\ args.lat = 64 /\ args.date.aware /\ args.zenith = "civil"
    /\ err = "ValueError: invalid latitude" /\ sunrise = None /\ sunset = None

\* C9: the local decimal hour after adding the offset and wrapping once lies
\* in [0, 24), and splicing it onto the date gives a valid time of day.
C9_LocalHourInRange ==
    lastOp = "Convert" =>
        /\ 0 <= decimalTime /\ decimalTime < DaySeconds
        /\ err = "none"

\* C10: each solver run ends after at most 35 rounds: a round is made only
\* while |utold - utnew| > 0.001 and fewer than 35 rounds were made, the loop
\* is left with the estimates converged or with 35 rounds made, without an
\* error, and the time handed on is derived from the last estimate.
C10_LoopInv ==
    /\ ct \in 0..MaxIter
    /\ lastOp = "ExitLoop" =>
          /\ pc = "convert" /\ err = "none"
          /\ Abs(utold - utnew) <= Epsilon \/ ct = MaxIter
          /\ decimalTime = DecimalTime(utnew)

C10_Round ==
    lastOp' = "Iterate" =>
        /\ Abs(utold - utnew) > Epsilon /\ ct < MaxIter
        /\ ct' = ct + 1 /\ pc' = "loop"

C10_Terminates ==
    /\ []C10_LoopInv
    /\ [][C10_Round]_vars
    /\ (pc = "loop") ~> (pc = "convert")

\* 35 rounds made without convergence, the loop left without an error
C10_Witness ==
    /\ lastOp = "ExitLoop" /\ ct = MaxIter /\ Abs(utold - utnew) > Epsilon
    /\ pc = "convert" /\ err = "none"

(***************************************************************************)
(* Claims about changeScheme (SpecChange)                                  *)
(***************************************************************************)
\* C6: changeScheme writes the colour scheme (the window theme) only when the
\* desired value is non-empty and differs from the active one, otherwise the
\* setting is left as it was; a second consecutive call with the same desired
\* values writes nothing; after a call with a non-empty desired value the
\* active value is the desired one.
C6_WritesOnlyOnChange ==
    lastOp = "changeScheme" =>
        /\ call.wroteScheme =>
              call.desiredScheme # "" /\ call.before.color_scheme # call.desiredScheme
        /\ call.wroteTheme =>
              call.desiredTheme # "" /\ call.before.theme # call.desiredTheme
        /\ ~call.wroteScheme => prefs.color_scheme = call.before.color_scheme
        /\ ~call.wroteTheme => prefs.theme = call.before.theme
        /\ call.desiredScheme # "" => prefs.color_scheme = call.desiredScheme
        /\ call.desiredTheme # "" => prefs.theme = call.desiredTheme
        /\ ( /\ prevCall # None
             /\ prevCall[1].desiredScheme = call.desiredScheme
             /\ prevCall[1].desiredTheme = call.desiredTheme )
           => ~call.wroteScheme /\ ~call.wroteTheme

\* a call that wrote both settings, then the same call again writing nothing
C6_Witness ==
    /\ lastOp = "changeScheme" /\ prevCall # None
    /\ prevCall[1].wroteScheme /\ prevCall[1].wroteTheme
    /\ prevCall[1].desiredScheme = call.desiredScheme
    /\ prevCall[1].desiredTheme = call.desiredTheme
    /\ ~call.wroteScheme /\ ~call.wroteTheme

(***************************************************************************)
(* Claims about the periodic check (Spec, SpecChain)                       *)
(***************************************************************************)
IsRun(op) == op \in {"run", "run_failed"}

\* every started switcher has exactly one callback on the timer
C7_OnePending ==
    \A i \in Switchers : pending[i] = IF i <= started THEN 1 ELSE 0

\* an invocation of run leaves exactly one callback of its switcher
\* registered, also when its scheme check fails, and touches no other's
C7_Registers ==
    IsRun(lastOp') /\ (runs' # runs) =>
        /\ self' \in Switchers
        /\ pending'[self'] = 1
        /\ \A j \in Switchers \ {self'} : pending'[j] = pending[j]

\* C7: every invocation of run registers exactly one callback for the next
\* one, before the scheme check, so also when the check fails; after each
\* invocation of a started switcher exactly one invocation is pending, and
\* the check runs infinitely often.
C7_ChainContinues ==
    /\ []C7_OnePending
    /\ [][C7_Registers]_vars
    /\ \A k \in 0..(RunsCycle - 1) : [](started >= 1 => <>(runs = k /\ IsRun(lastOp)))

\* a periodic check whose scheme check failed, with the next one pending
C7_Witness ==
    /\ lastOp = "run_failed" /\ runSunThemeSwitcher /\ started = 1
    /\ pending[1] = 1

\* C8: every classification a periodic check makes from sunrise and sunset
\* uses values computed for the current calendar day and the current
\* settings (they are recomputed after a day rollover or a settings change).
C8_EventsAreCurrent ==
    ( /\ lastOp = "run"
      /\ ~settings.forceNight /\ ~settings.forceDay )
    => /\ eventsFor[self].overrideTimes = settings.overrideTimes
       /\ ~settings.overrideTimes =>
             /\ eventsFor[self].day = clock.day
             /\ eventsFor[self].latitude = settings.latitude

====
